---- MODULE Spec2Model ----
(***************************************************************************)
(* The streaming deflate driver of pako-esm (lib/deflate.js): the Deflate  *)
(* constructor, Deflate.prototype.push with its chunk loop, the default    *)
(* onData / onEnd hooks, and the one-shot functions deflate, deflateRaw    *)
(* and gzip.  The block codec engine (lib/zlib/deflate.js) is consumed     *)
(* through its contract: init, step, finish, setHeader, setDictionary.     *)
(*                                                                         *)
(* JavaScript values are records [t, v]: t is the type tag and v the       *)
(* bytes (or character codes) the value holds.  Input data is a            *)
(* Uint8Array; textual input needs the utf8 encoder, which is not part of  *)
(* the driver.                                                             *)
(***************************************************************************)
EXTENDS Integers, Sequences, FiniteSets, TLC

VARIABLES
    drv,         \* the driver under test, as a world (see push): the instance
                 \* drv.self and the record of what happened to it
    call,        \* the last push call: whether the driver was live and, if so, the mode
    allIn,       \* the input pushed to the live driver so far, concatenated
    modes,       \* the _mode of each push call on the live driver so far
    twin,        \* the same pushes on a driver that differs in chunkSize only
    userOpts,    \* the options the driver was constructed from
    callerOpts,  \* the options object a caller of the one-shot functions holds
    out          \* the outcome of the last constructor or one-shot call

vars == <<drv, call, allIn, modes, twin, userOpts, callerOpts, out>>

(***************************************************************************)
(* Bounds of the model.                                                    *)
(***************************************************************************)
MaxChunk == 2       \* largest chunkSize a driver is constructed with
MaxTotalIn == 2     \* most input bytes pushed to one driver
MaxPushes == 3      \* most push calls on one live driver
MaxFaultStep == 2   \* latest engine step of a push that may report an error

Byte == {0, 1}

\* Longest data of one call.
MaxData == MaxTotalIn

(***************************************************************************)
(* Constants of lib/deflate.js.                                            *)
(***************************************************************************)
Z_NO_FLUSH == 0
Z_FINISH == 4
Z_OK == 0
Z_STREAM_END == 1
Z_SYNC_FLUSH == 2
Z_DEFAULT_COMPRESSION == -1
Z_DEFAULT_STRATEGY == 0
Z_DEFLATED == 8
DefaultChunkSize == 16384
DefaultWindowBits == 15
DefaultMemLevel == 8

\* Statuses of the engine other than Z_OK and Z_STREAM_END (constants.d.ts).
Z_NEED_DICT == 2
Z_STREAM_ERROR == -2
Z_DATA_ERROR == -3
Z_BUF_ERROR == -5

(***************************************************************************)
(* JavaScript values.                                                      *)
(***************************************************************************)
Null == [t |-> "null", v |-> <<>>]
Undefined == [t |-> "undefined", v |-> <<>>]
U8(bytes) == [t |-> "Uint8Array", v |-> bytes]
Str(codes) == [t |-> "string", v |-> codes]
Num(n) == [t |-> "number", v |-> n]
Bool(b) == [t |-> "boolean", v |-> IF b THEN 1 ELSE 0]

Min(a, b) == IF a < b THEN a ELSE b

Zeros(n) == [i \in 1..n |-> 0]

\* Sequences over S of length at most n.
SeqUpTo(S, n) == UNION {[1..k -> S] : k \in 0..n}

Max(a, b) == IF a > b THEN a ELSE b

RECURSIVE SumSeq(_)
SumSeq(s) == IF s = <<>> THEN 0 ELSE Head(s) + SumSeq(Tail(s))

\* The elements of s after the first n.
Drop(s, n) == SubSeq(s, n + 1, Len(s))

(***************************************************************************)
(* lib/zlib/zstream.js: the cursor record shared by driver and engine.     *)
(***************************************************************************)
ZStream ==
    [input |-> Null, next_in |-> 0, avail_in |-> 0, total_in |-> 0,
     output |-> Null, next_out |-> 0, avail_out |-> 0, total_out |-> 0,
     msg |-> "", state |-> Null, data_type |-> 2, adler |-> 0]

(***************************************************************************)
(* The block codec engine, from its contract.  Its byte stream is a frame  *)
(* header, one code per input byte, a marker for every completed sync      *)
(* flush and a trailer carrying the checksum of the input; the stream      *)
(* depends on the input and the modes only, never on the output space      *)
(* offered to a step.  A step holds back at most PendCap bytes, so that a  *)
(* step offered little output space leaves input unconsumed.  A fault is   *)
(* the engine reporting an error: at the at-th step of a push (at > 0) or  *)
(* in the finish call (at = -1).                                           *)
(***************************************************************************)
MsgTable(code) ==
    CASE code = 2 -> "need dictionary"
      [] code = 1 -> "stream end"
      [] code = 0 -> ""
      [] code = -1 -> "file error"
      [] code = -2 -> "stream error"
      [] code = -3 -> "data error"
      [] code = -4 -> "insufficient memory"
      [] code = -5 -> "buffer error"
      [] code = -6 -> "incompatible version"
      [] OTHER -> "undefined"

\* Bytes the engine can hold back between two steps.
PendCap == 1

NoFault == [at |-> 0, code |-> 0, withMsg |-> FALSE]

\* A stream error comes with its message, a buffer error without one; the
\* first step may also ask for a dictionary.
StepFaults ==
    {[at |-> n, code |-> Z_STREAM_ERROR, withMsg |-> TRUE] : n \in 1..MaxFaultStep}
        \cup {[at |-> n, code |-> Z_BUF_ERROR, withMsg |-> FALSE] : n \in 1..MaxFaultStep}
        \cup {[at |-> 1, code |-> Z_NEED_DICT, withMsg |-> FALSE]}

EndFaults == {[at |-> -1, code |-> Z_DATA_ERROR, withMsg |-> TRUE]}

Faults == {NoFault} \cup StepFaults \cup EndFaults

\* What the engine leaves in strm.msg when it reports fault f.
FaultMsg(strm, f) == IF f.withMsg THEN MsgTable(f.code) ELSE strm.msg

\* The frame header selected by the window bits given to init.
FrameHeader(windowBits) ==
    IF windowBits < 0 THEN <<>>
    ELSE IF windowBits > 15 THEN <<5>>
    ELSE <<4>>

Encode(bytes) == [i \in 1..Len(bytes) |-> bytes[i] + 2]

FlushMarker == <<6>>

Trailer(adler) == <<7 + adler>>

\* init(level, method, windowBits, memLevel, strategy): the engine state of a
\* fresh stream, or the status it refuses the parameters with.
deflateInit2(strm, level, method, windowBits, memLevel, strategy, status) ==
    [status |-> status,
     strm |-> IF status = Z_OK
              THEN [strm EXCEPT !.state =
                       [t |-> "state", level |-> level, method |-> method,
                        windowBits |-> windowBits, memLevel |-> memLevel,
                        strategy |-> strategy, started |-> FALSE, pend |-> <<>>,
                        synced |-> FALSE, trailed |-> FALSE, freed |-> FALSE,
                        header |-> FALSE, dictionary |-> FALSE]]
              ELSE [strm EXCEPT !.msg = MsgTable(status)]]

deflateSetHeader(strm, header) ==
    [strm EXCEPT !.state = [@ EXCEPT !.header = TRUE]]

deflateSetDictionary(strm, dict, status) ==
    [status |-> status,
     strm |-> IF status = Z_OK
              THEN [strm EXCEPT !.state = [@ EXCEPT !.dictionary = TRUE]]
              ELSE strm]

\* step(state, mode): one engine step on the bound input and output buffers.
\* What the engine holds when the step starts: the bytes held back, after
\* the frame header if the stream has not started.
held(strm) ==
    strm.state.pend
        \o (IF strm.state.started THEN <<>> ELSE FrameHeader(strm.state.windowBits))

\* The number of input bytes the step takes.
takes(strm) ==
    Min(strm.avail_in, Max(0, PendCap + strm.avail_out - Len(held(strm))))

\* What closes the bytes of the step: a flush marker or the trailer, once
\* all input is taken.
closing(strm, mode) ==
    IF takes(strm) # strm.avail_in THEN "none"
    ELSE IF mode = Z_SYNC_FLUSH /\ ~strm.state.synced THEN "marker"
    ELSE IF mode = Z_FINISH /\ ~strm.state.trailed THEN "trailer"
    ELSE "none"

\* The checksum after c more input bytes.
checksum(strm, c) ==
    (strm.adler + SumSeq(SubSeq(strm.input.v, strm.next_in + 1, strm.next_in + c))) % 2

\* The bytes the engine holds after taking c input bytes and closing them.
filled(strm, c, close) ==
    held(strm)
        \o Encode(SubSeq(strm.input.v, strm.next_in + 1, strm.next_in + c))
        \o (IF close = "marker" THEN FlushMarker
            ELSE IF close = "trailer" THEN Trailer(checksum(strm, c))
            ELSE <<>>)

\* The step writes the first n of the bytes it holds to the output buffer.
settle(strm, mode, c, close, bytes, n) ==
    [status |-> IF mode = Z_FINISH /\ (strm.state.trailed \/ close = "trailer")
                    /\ Len(bytes) = n
                THEN Z_STREAM_END ELSE Z_OK,
     strm |-> [strm EXCEPT
         !.next_in = @ + c, !.avail_in = @ - c, !.total_in = @ + c,
         !.output = [@ EXCEPT !.v = SubSeq(@, 1, strm.next_out) \o SubSeq(bytes, 1, n)],
         !.next_out = @ + n, !.avail_out = @ - n, !.total_out = @ + n,
         !.adler = checksum(strm, c),
         !.state = [@ EXCEPT
             !.started = TRUE,
             !.pend = Drop(bytes, n),
             !.synced = mode = Z_SYNC_FLUSH /\ (@ \/ close = "marker")
                           /\ strm.avail_out = n,
             !.trailed = @ \/ close = "trailer"]]]

deliver(strm, mode, c, close, bytes) ==
    settle(strm, mode, c, close, bytes, Min(strm.avail_out, Len(bytes)))

zlib_deflate(strm, mode, f) ==
    IF f.at # 0
    THEN [status |-> f.code, strm |-> [strm EXCEPT !.msg = FaultMsg(strm, f)]]
    ELSE deliver(strm, mode, takes(strm), closing(strm, mode),
                 filled(strm, takes(strm), closing(strm, mode)))

\* finish(state): release the engine state.
deflateEnd(strm, f) ==
    IF f.at = -1
    THEN [status |-> f.code, strm |-> [strm EXCEPT !.msg = FaultMsg(strm, f)]]
    ELSE [status |-> Z_OK, strm |-> [strm EXCEPT !.state = [@ EXCEPT !.freed = TRUE]]]

(***************************************************************************)
(* lib/utils: the helpers the driver calls.                                *)
(***************************************************************************)
\* Object.assign(target, source): the keys the source object has override.
assign(target, source) ==
    [level |-> IF "level" \in source.has THEN source.level ELSE target.level,
     method |-> IF "method" \in source.has THEN source.method ELSE target.method,
     chunkSize |-> IF "chunkSize" \in source.has THEN source.chunkSize
                   ELSE target.chunkSize,
     windowBits |-> IF "windowBits" \in source.has THEN source.windowBits
                    ELSE target.windowBits,
     memLevel |-> IF "memLevel" \in source.has THEN source.memLevel
                  ELSE target.memLevel,
     strategy |-> IF "strategy" \in source.has THEN source.strategy
                  ELSE target.strategy,
     to |-> IF "to" \in source.has THEN source.to ELSE target.to,
     raw |-> IF "raw" \in source.has THEN source.raw ELSE target.raw,
     gzip |-> IF "gzip" \in source.has THEN source.gzip ELSE target.gzip,
     header |-> IF "header" \in source.has THEN source.header ELSE target.header,
     dictionary |-> IF "dictionary" \in source.has THEN source.dictionary
                    ELSE target.dictionary]

\* An options object: has is the set of its own keys; a key it has not reads
\* as undefined, which is falsy for raw, gzip, header and dictionary.
EmptyObject ==
    [defined |-> TRUE, has |-> {}, level |-> 0, method |-> 0, chunkSize |-> 0,
     windowBits |-> 0, memLevel |-> 0, strategy |-> 0, to |-> "", raw |-> FALSE,
     gzip |-> FALSE, header |-> FALSE, dictionary |-> FALSE]

NoOptions == [EmptyObject EXCEPT !.defined = FALSE]

\* options || {}
OrEmpty(options) == IF options.defined THEN options ELSE EmptyObject

\* Join array of chunks to single array: the second loop of flattenChunks.
RECURSIVE flattenInto(_, _, _)
flattenInto(result, chunks, pos) ==
    IF chunks = <<>> THEN result
    ELSE flattenInto([i \in 1..Len(result) |->
                         IF i > pos /\ i <= pos + Len(Head(chunks).v)
                         THEN Head(chunks).v[i - pos] ELSE result[i]],
                     Tail(chunks), pos + Len(Head(chunks).v))

\* The first loop of flattenChunks: calculate data length.
RECURSIVE chunksLength(_)
chunksLength(chunks) ==
    IF chunks = <<>> THEN 0 ELSE Len(Head(chunks).v) + chunksLength(Tail(chunks))

flattenChunks(chunks) == U8(flattenInto(Zeros(chunksLength(chunks)), chunks, 0))

\* Array.prototype.join(''): the strings of the array, one after the other.
RECURSIVE join(_)
join(chunks) ==
    IF chunks = <<>> THEN Str(<<>>)
    ELSE Str(Head(chunks).v \o join(Tail(chunks)).v)

\* The first size bytes of buf.
shrinkBuf(buf, size) ==
    U8([i \in 1..size |-> IF i <= Len(buf.v) THEN buf.v[i] ELSE 0])

\* The string whose i-th character has the code of the i-th byte.
buf2binstring(buf) == Str(buf.v)

\* new Buf8(size): zero filled.  An output buffer is recorded by its length
\* and the bytes written to it; the bytes after them are the zeros it was
\* filled with.
Buf8(size) == [t |-> "Uint8Array", v |-> <<>>, length |-> size]

(***************************************************************************)
(* lib/deflate.js: new Deflate(options).  The answer c of the constructor  *)
(* tells whether it threw (c.threw) and what (c.error); c.self is the      *)
(* instance and c.calls the engine calls made.  initStatus and dictStatus  *)
(* are the statuses the engine answers init and setDictionary with.        *)
(***************************************************************************)
Defaults ==
    [level |-> Z_DEFAULT_COMPRESSION, method |-> Z_DEFLATED,
     chunkSize |-> DefaultChunkSize, windowBits |-> DefaultWindowBits,
     memLevel |-> DefaultMemLevel, strategy |-> Z_DEFAULT_STRATEGY, to |-> "",
     raw |-> FALSE, gzip |-> FALSE, header |-> FALSE, dictionary |-> FALSE]

\* An adjustment that looks at the gzip flag first.
adjustWindowBits_gzipFirst(opt) ==
    IF opt.gzip /\ opt.windowBits > 0 /\ opt.windowBits < 16
    THEN [opt EXCEPT !.windowBits = opt.windowBits + 16]
    ELSE IF opt.raw /\ opt.windowBits > 0
    THEN [opt EXCEPT !.windowBits = -opt.windowBits]
    ELSE opt

\* The window bits adjustment of the constructor.
adjustWindowBits(opt) ==
    IF opt.raw /\ opt.windowBits > 0
    THEN [opt EXCEPT !.windowBits = -opt.windowBits]
    ELSE IF opt.gzip /\ opt.windowBits > 0 /\ opt.windowBits < 16
    THEN [opt EXCEPT !.windowBits = opt.windowBits + 16]
    ELSE opt

\* An event of a call log.  The event of an engine step also keeps the
\* stream state before and after the step and whether the output buffer of
\* the step had been handed to onData.
Event(ev, status) ==
    [ev |-> ev, status |-> status, chunks |-> <<>>, result |-> Undefined,
     before |-> Null, after |-> Null, handed |-> FALSE]

\* The fields the constructor sets before it calls the engine.
newInstance(opt) ==
    [options |-> opt, err |-> 0, msg |-> "", ended |-> FALSE, chunks |-> <<>>,
     result |-> Undefined, strm |-> [ZStream EXCEPT !.avail_out = 0],
     _dict_set |-> FALSE]

\* A constructor that does not look at the status of setDictionary.
afterDictionary_ignoresStatus(c, dc) ==
    [c EXCEPT !.self.strm = dc.strm, !.self._dict_set = TRUE,
              !.calls = Append(@, Event("deflateSetDictionary", dc.status))]

\* if (opt.dictionary) { ...; if (status !== Z_OK) throw ...; this._dict_set = true; }
afterDictionary(c, dc) ==
    IF dc.status # Z_OK
    THEN [c EXCEPT !.threw = TRUE, !.error = MsgTable(dc.status),
                   !.calls = Append(@, Event("deflateSetDictionary", dc.status))]
    ELSE [c EXCEPT !.self.strm = dc.strm, !.self._dict_set = TRUE,
                   !.calls = Append(@, Event("deflateSetDictionary", dc.status))]

setDictionary(c, dictStatus) ==
    IF c.self.options.dictionary
    THEN afterDictionary(c, deflateSetDictionary(c.self.strm, c.self.options.dictionary,
                                                 dictStatus))
    ELSE c

\* if (opt.header) { zlib_deflate.deflateSetHeader(this.strm, opt.header); }
setHeader(c) ==
    IF c.self.options.header
    THEN [c EXCEPT !.self.strm = deflateSetHeader(@, c.self.options.header),
                   !.calls = Append(@, Event("deflateSetHeader", 0))]
    ELSE c

\* if (status !== Z_OK) { throw new Error(msg[status]); }
afterInit(this, i, dictStatus) ==
    IF i.status # Z_OK
    THEN [threw |-> TRUE, error |-> MsgTable(i.status),
          self |-> [this EXCEPT !.strm = i.strm],
          calls |-> <<Event("deflateInit2", this.options.windowBits)>>]
    ELSE setDictionary(
             setHeader([threw |-> FALSE, error |-> "",
                        self |-> [this EXCEPT !.strm = i.strm],
                        calls |-> <<Event("deflateInit2", this.options.windowBits)>>]),
             dictStatus)

construct(opt, initStatus, dictStatus) ==
    afterInit(newInstance(opt),
              deflateInit2(newInstance(opt).strm, opt.level, opt.method,
                           opt.windowBits, opt.memLevel, opt.strategy, initStatus),
              dictStatus)

Deflate(options, initStatus, dictStatus) ==
    construct(adjustWindowBits(assign(Defaults, OrEmpty(options))),
              initStatus, dictStatus)

(***************************************************************************)
(* The default hooks.                                                      *)
(***************************************************************************)
onData(this, chunk) == [this EXCEPT !.chunks = Append(this.chunks, chunk)]

\* An end hook that keeps the chunks it has joined.
onEnd_keepsChunks(this, status) ==
    [this EXCEPT
        !.result = IF status = Z_OK
                   THEN IF this.options.to = "string" THEN join(this.chunks)
                        ELSE flattenChunks(this.chunks)
                   ELSE this.result,
        !.err = status,
        !.msg = this.strm.msg]

\* An end hook that joins the chunks whatever the status.
onEnd_alwaysJoins(this, status) ==
    [this EXCEPT
        !.result = IF this.options.to = "string" THEN join(this.chunks)
                   ELSE flattenChunks(this.chunks),
        !.chunks = <<>>,
        !.err = status,
        !.msg = this.strm.msg]

onEnd(this, status) ==
    [this EXCEPT
        !.result = IF status = Z_OK
                   THEN IF this.options.to = "string" THEN join(this.chunks)
                        ELSE flattenChunks(this.chunks)
                   ELSE this.result,
        !.chunks = <<>>,
        !.err = status,
        !.msg = this.strm.msg]

(***************************************************************************)
(* Deflate.prototype.push.  A world w is the instance with the record of   *)
(* what happened to it: w.self is the instance, w.status the local         *)
(* variable status of the running push, w.ret what the last push           *)
(* returned; the ghosts are w.log (the calls of the last push, in order),  *)
(* w.emitted (every byte handed to onData since construction), w.produced  *)
(* (every byte the engine wrote to an output buffer), w.returned (the      *)
(* push returned from inside the loop) and w.handed (the output buffer in  *)
(* use has been handed to onData) and w.mark (the number of bytes handed   *)
(* to onData when onEnd was last called).                                  *)
(***************************************************************************)
World(this) ==
    [self |-> this, log |-> <<>>, emitted |-> <<>>, produced |-> <<>>,
     status |-> Z_OK, returned |-> FALSE, ret |-> FALSE, handed |-> FALSE,
     mark |-> 0]

\* A mode normalisation that takes the boolean true for no-flush.
pushMode_trueIsNoFlush(mode) ==
    IF mode.t = "number" THEN mode.v ELSE Z_NO_FLUSH

\* _mode = (mode === ~~mode) ? mode : ((mode === true) ? Z_FINISH : Z_NO_FLUSH)
pushMode(mode) ==
    IF mode.t = "number" THEN mode.v
    ELSE IF mode.t = "boolean" /\ mode.v = 1 THEN Z_FINISH
    ELSE Z_NO_FLUSH

\* A loop that takes a fresh output buffer for every step.
needsBuffer_always(strm) == TRUE

\* if (strm.avail_out === 0): a fresh output buffer is due.
needsBuffer(strm) == strm.avail_out = 0

allocate(w) ==
    IF needsBuffer(w.self.strm)
    THEN [w EXCEPT !.self.strm.output = Buf8(w.self.options.chunkSize),
                   !.self.strm.next_out = 0,
                   !.self.strm.avail_out = w.self.options.chunkSize,
                   !.log = Append(@, Event("Buf8", 0)),
                   !.handed = FALSE]
    ELSE w

\* status = zlib_deflate.deflate(strm, _mode), with the call recorded.
stepped(w, r) ==
    [w EXCEPT !.self.strm = r.strm,
              !.status = r.status,
              !.log = Append(@, [Event("deflate", r.status) EXCEPT
                                    !.before = w.self.strm, !.after = r.strm,
                                    !.handed = w.handed]),
              !.produced = @ \o SubSeq(r.strm.output.v, w.self.strm.next_out + 1,
                                       r.strm.next_out)]

\* A loop that takes every status for a success.
isFailure_never(status) == FALSE

\* if (status !== Z_STREAM_END && status !== Z_OK)
isFailure(status) == status # Z_STREAM_END /\ status # Z_OK

\* A loop that hands the buffer to onData after every step.
shouldEmit_always(strm, _mode) == TRUE

\* A loop that hands a buffer to onData at the end of the input only.
shouldEmit_atEndOnly(strm, _mode) ==
    strm.avail_in = 0 /\ (_mode = Z_FINISH \/ _mode = Z_SYNC_FLUSH)

\* The condition under which the loop hands the buffer to onData.
shouldEmit(strm, _mode) ==
    strm.avail_out = 0
        \/ (strm.avail_in = 0 /\ (_mode = Z_FINISH \/ _mode = Z_SYNC_FLUSH))

\* A loop that goes on after the engine reported the end of the stream.
loopAgain_pastStreamEnd(strm, status) ==
    strm.avail_in > 0 \/ strm.avail_out = 0

\* while ((strm.avail_in > 0 || strm.avail_out === 0) && status !== Z_STREAM_END)
loopAgain(strm, status) ==
    (strm.avail_in > 0 \/ strm.avail_out = 0) /\ status # Z_STREAM_END

\* this.onEnd(status), with the call recorded.
callOnEnd(w, status) ==
    [w EXCEPT !.self = onEnd(w.self, status),
              !.log = Append(@, [Event("onEnd", status) EXCEPT
                                    !.chunks = w.self.chunks,
                                    !.result = w.self.result]),
              !.mark = Len(w.emitted)]

\* A loop that hands the whole output buffer to onData.
chunkOf_wholeBuffer(this) ==
    IF this.options.to = "string"
    THEN buf2binstring(shrinkBuf(this.strm.output, this.strm.output.length))
    ELSE shrinkBuf(this.strm.output, this.strm.output.length)

\* The chunk the loop hands to onData: the filled part of the output buffer.
chunkOf(this) ==
    IF this.options.to = "string"
    THEN buf2binstring(shrinkBuf(this.strm.output, this.strm.next_out))
    ELSE shrinkBuf(this.strm.output, this.strm.next_out)

\* this.onData(chunk), with the call recorded.
emit(w) ==
    [w EXCEPT !.self = onData(w.self, chunkOf(w.self)),
              !.log = Append(@, [Event("onData", 0) EXCEPT
                                    !.chunks = <<chunkOf(w.self)>>]),
              !.emitted = @ \o chunkOf(w.self).v,
              !.handed = TRUE]

\* this.onEnd(status); this.ended = true; return false;
fail(w) ==
    [callOnEnd(w, w.status) EXCEPT !.self.ended = TRUE, !.returned = TRUE,
                                   !.ret = FALSE]

\* The body of the do-while loop after the engine step; n counts the steps.
RECURSIVE chunkLoop(_, _, _, _)
again(w, _mode, n, fault) ==
    IF loopAgain(w.self.strm, w.status)
    THEN chunkLoop(w, _mode, n + 1, fault)
    ELSE w

afterStep(w, _mode, n, fault) ==
    IF isFailure(w.status) THEN fail(w)
    ELSE again(IF shouldEmit(w.self.strm, _mode) THEN emit(w) ELSE w, _mode, n, fault)

step(w, _mode, f) == stepped(w, zlib_deflate(w.self.strm, _mode, f))

chunkLoop(w, _mode, n, fault) ==
    afterStep(step(allocate(w), _mode, IF fault.at = n THEN fault ELSE NoFault),
              _mode, n, fault)

\* One pass through the body of the do-while loop, up to its condition.
iterated(w, _mode) ==
    IF isFailure(w.status) THEN fail(w)
    ELSE IF shouldEmit(w.self.strm, _mode) THEN emit(w)
    ELSE w

iteration(w, _mode, f) == iterated(step(allocate(w), _mode, f), _mode)

\* A push that does not look at the termination flag.
isEnded_never(this) == FALSE

\* if (this.ended) { return false; }
isEnded(this) == this.ended

\* A finishing push that returns true whatever deflateEnd answered.
finished_returnsTrue(w, e) ==
    [callOnEnd([w EXCEPT !.self.strm = e.strm,
                         !.log = Append(@, Event("deflateEnd", e.status))],
               e.status)
        EXCEPT !.status = e.status, !.self.ended = TRUE, !.ret = TRUE]

\* After the loop, mode Z_FINISH: finalize on the last chunk.
finished(w, e) ==
    [callOnEnd([w EXCEPT !.self.strm = e.strm,
                         !.log = Append(@, Event("deflateEnd", e.status))],
               e.status)
        EXCEPT !.status = e.status, !.self.ended = TRUE, !.ret = e.status = Z_OK]

finish(w, fault) == finished(w, deflateEnd(w.self.strm, fault))

\* A sync flush that rewinds the output buffer to use it again.
syncFlush_rewindsBuffer(w) ==
    [callOnEnd(w, Z_OK) EXCEPT !.self.strm.next_out = 0,
                               !.self.strm.avail_out = w.self.options.chunkSize,
                               !.ret = TRUE]

\* A sync flush that leaves the remaining output capacity as it is.
syncFlush_keepsCapacity(w) == [callOnEnd(w, Z_OK) EXCEPT !.ret = TRUE]

\* After the loop, mode Z_SYNC_FLUSH: callback interim results.
syncFlush(w) ==
    [callOnEnd(w, Z_OK) EXCEPT !.self.strm.avail_out = 0, !.ret = TRUE]

afterLoop(w, _mode, fault) ==
    IF w.returned THEN w
    ELSE IF _mode = Z_FINISH THEN finish(w, fault)
    ELSE IF _mode = Z_SYNC_FLUSH THEN syncFlush(w)
    ELSE [w EXCEPT !.ret = TRUE]

\* A push that binds the data and leaves avail_in as it was.
bind_keepsCount(w, data) ==
    [w EXCEPT !.self.strm.input = data,
              !.self.strm.next_in = 0,
              !.log = <<>>, !.returned = FALSE]

\* strm.input = data; strm.next_in = 0; strm.avail_in = strm.input.length;
bind(w, data) ==
    [w EXCEPT !.self.strm.input = data,
              !.self.strm.next_in = 0,
              !.self.strm.avail_in = Len(data.v),
              !.log = <<>>, !.returned = FALSE]

pushLive(w, _mode, fault) == afterLoop(chunkLoop(w, _mode, 1, fault), _mode, fault)

push(w, data, mode, fault) ==
    IF isEnded(w.self) THEN [w EXCEPT !.log = <<>>, !.returned = FALSE, !.ret = FALSE]
    ELSE pushLive(bind(w, data), pushMode(mode), fault)

(***************************************************************************)
(* The one-shot functions.  Each answer tells how the call ended (kind is  *)
(* "return" or "throw", value what was returned, error what was thrown),   *)
(* the options object as the call left it, and the record of the call:     *)
(* whether a driver was constructed, the calls the constructor made, the   *)
(* pushes, the log and the return of the push, and the driver afterwards.  *)
(***************************************************************************)
\* A one-shot function that returns the result whatever the error code.
answer_neverThrows(c, p, input, options) ==
    [kind |-> "return", value |-> p.self.result, error |-> "",
     options |-> options, constructed |-> TRUE, calls |-> c.calls,
     pushes |-> <<[data |-> input, mode |-> Bool(TRUE)]>>,
     log |-> p.log, ret |-> p.ret, deflator |-> p.self]

\* if (deflator.err) { throw deflator.msg || msg[deflator.err]; }
\* return deflator.result;
answer(c, p, input, options) ==
    [kind |-> IF p.self.err # 0 THEN "throw" ELSE "return",
     value |-> IF p.self.err # 0 THEN Undefined ELSE p.self.result,
     error |-> IF p.self.err = 0 THEN ""
               ELSE IF p.self.msg # "" THEN p.self.msg ELSE MsgTable(p.self.err),
     options |-> options, constructed |-> TRUE, calls |-> c.calls,
     pushes |-> <<[data |-> input, mode |-> Bool(TRUE)]>>,
     log |-> p.log, ret |-> p.ret, deflator |-> p.self]

oneShot(c, input, options, fault) ==
    IF c.threw
    THEN [kind |-> "throw", value |-> Undefined, error |-> c.error,
          options |-> options, constructed |-> FALSE, calls |-> c.calls,
          pushes |-> <<>>, log |-> <<>>, ret |-> FALSE, deflator |-> c.self]
    ELSE answer(c, push(World(c.self), input, Bool(TRUE), fault), input, options)

deflate(input, options, initStatus, dictStatus, fault) ==
    oneShot(Deflate(options, initStatus, dictStatus), input, options, fault)

\* options = options || {}; options.raw = true;
forceRaw(options) ==
    [OrEmpty(options) EXCEPT !.raw = TRUE, !.has = @ \cup {"raw"}]

\* options = options || {}; options.gzip = true;
forceGzip(options) ==
    [OrEmpty(options) EXCEPT !.gzip = TRUE, !.has = @ \cup {"gzip"}]

deflateRaw(input, options, initStatus, dictStatus, fault) ==
    deflate(input, forceRaw(options), initStatus, dictStatus, fault)

gzip(input, options, initStatus, dictStatus, fault) ==
    deflate(input, forceGzip(options), initStatus, dictStatus, fault)

(***************************************************************************)
(* The inputs of the model.                                                *)
(***************************************************************************)
Datas == {U8(b) : b \in SeqUpTo(Byte, MaxData)}

ModeUndefined == [t |-> "undefined", v |-> 0]

PushModes == {Num(Z_NO_FLUSH), Num(Z_SYNC_FLUSH), Num(Z_FINISH),
              Bool(TRUE), Bool(FALSE), ModeUndefined}

InitStatuses == {Z_OK, Z_STREAM_ERROR}

\* The capacity of the twin driver: one no driver under test has.
TwinChunk == MaxChunk + 1

\* The options the driver under test is constructed from.
StreamOptions ==
    {[EmptyObject EXCEPT !.has = {"chunkSize", "to"}, !.chunkSize = c, !.to = t] :
        c \in 1..MaxChunk, t \in {"", "string"}}

WindowBitsChoices == {-15, 0, 9, 16}

\* The options objects a caller hands to the constructor or to a one-shot
\* function; undefined is one of them.  The others name a chunkSize: the
\* buffers of the default capacity are 16384 bytes long.
CallerOptions ==
    {NoOptions} \cup
    {[EmptyObject EXCEPT
         !.has = hw \cup hr \cup hg \cup (IF str THEN {"to"} ELSE {})
                    \cup {"chunkSize"}
                    \cup (IF d THEN {"dictionary"} ELSE {})
                    \cup (IF h THEN {"header"} ELSE {}),
         !.windowBits = IF hw = {} THEN 0 ELSE wb,
         !.raw = hr # {},
         !.gzip = hg # {},
         !.to = IF str THEN "string" ELSE "",
         !.chunkSize = MaxChunk, !.dictionary = d, !.header = h] :
        hw \in SUBSET {"windowBits"}, hr \in SUBSET {"raw"}, hg \in SUBSET {"gzip"},
        wb \in WindowBitsChoices, str \in BOOLEAN, d \in BOOLEAN, h \in BOOLEAN}

\* The inputs and the engine faults of the one-shot calls.
OneShotInputs == {U8(<<>>), U8(<<1>>), U8(<<0, 1>>)}

OneShotFaults == {f \in Faults : f.at <= 1}

NoCall == [mode |-> ModeUndefined, live |-> FALSE]

NoOutcome ==
    [fn |-> "none", kind |-> "none", value |-> Undefined, error |-> "",
     options |-> NoOptions, constructed |-> FALSE, calls |-> <<>>,
     pushes |-> <<>>, log |-> <<>>, ret |-> FALSE,
     deflator |-> newInstance(Defaults), given |-> NoOptions]

(***************************************************************************)
(* The streaming driver: Init is the state after construction, Push is a   *)
(* call of push.  The twin receives the pushes the live driver receives,   *)
(* from an engine that reports no error.  A push on a terminated driver    *)
(* does not reach the engine, so there is no fault to choose for it.       *)
(***************************************************************************)
Init ==
    \E o \in StreamOptions :
        /\ userOpts = o
        /\ drv = World(Deflate(o, Z_OK, Z_OK).self)
        /\ twin = World(Deflate([o EXCEPT !.chunkSize = TwinChunk], Z_OK, Z_OK).self)
        /\ call = NoCall
        /\ allIn = <<>>
        /\ modes = <<>>
        /\ callerOpts = NoOptions
        /\ out = NoOutcome

Push(data, mode, fault) ==
    /\ drv.self.ended \/ Len(modes) < MaxPushes
    /\ drv.self.ended \/ Len(allIn) + Len(data.v) <= MaxTotalIn
    /\ drv.self.ended => fault = NoFault
    /\ drv' = push(drv, data, mode, fault)
    /\ call' = IF drv.self.ended THEN NoCall ELSE [mode |-> mode, live |-> TRUE]
    /\ allIn' = IF drv.self.ended THEN allIn ELSE allIn \o data.v
    /\ modes' = IF drv.self.ended THEN modes ELSE Append(modes, pushMode(mode))
    /\ twin' = IF drv.self.ended THEN twin ELSE push(twin, data, mode, NoFault)
    /\ UNCHANGED <<userOpts, callerOpts, out>>

Next == \E data \in Datas, mode \in PushModes, fault \in Faults : Push(data, mode, fault)

Spec == Init /\ [][Next]_vars

(***************************************************************************)
(* The same driver with push taken one pass of its loop at a time.         *)
(* call.pc is the position of the running push: "idle" between two calls,  *)
(* "loop" at the head of the loop body, "after" past the loop condition;   *)
(* call.n counts the engine steps of the running push and call.fault is    *)
(* the fault the engine has in store for it.  call.start is the driver as  *)
(* the running push found it and call.data the data it was given.  The     *)
(* code is synchronous: a push that has begun takes its passes and its     *)
(* return without waiting for anything, which is the fairness of PushStep  *)
(* and PushEnd; nothing obliges the caller to push again.                  *)
(***************************************************************************)
Idle ==
    [mode |-> ModeUndefined, live |-> FALSE, pc |-> "idle", n |-> 0,
     fault |-> NoFault, start |-> Null, data |-> Null]

InitLoop ==
    \E o \in StreamOptions :
        /\ userOpts = o
        /\ drv = World(Deflate(o, Z_OK, Z_OK).self)
        /\ twin = drv
        /\ call = Idle
        /\ allIn = <<>>
        /\ modes = <<>>
        /\ callerOpts = NoOptions
        /\ out = NoOutcome

\* The call of push, up to the head of the loop; on a terminated driver the
\* whole call.
PushBegin(data, mode, fault) ==
    /\ call.pc = "idle"
    /\ drv.self.ended \/ Len(modes) < MaxPushes
    /\ drv.self.ended \/ Len(allIn) + Len(data.v) <= MaxTotalIn
    /\ drv.self.ended => fault = NoFault
    /\ drv' = IF isEnded(drv.self)
              THEN [drv EXCEPT !.log = <<>>, !.returned = FALSE, !.ret = FALSE]
              ELSE bind(drv, data)
    /\ call' = IF drv.self.ended THEN Idle
               ELSE [mode |-> mode, live |-> TRUE, pc |-> "loop", n |-> 1,
                     fault |-> fault, start |-> drv, data |-> data]
    /\ allIn' = IF drv.self.ended THEN allIn ELSE allIn \o data.v
    /\ modes' = IF drv.self.ended THEN modes ELSE Append(modes, pushMode(mode))
    /\ UNCHANGED <<twin, userOpts, callerOpts, out>>

\* Where the push is after a pass of the loop body.
passed(w) ==
    IF w.returned THEN "idle"
    ELSE IF loopAgain(w.self.strm, w.status) THEN "loop"
    ELSE "after"

\* One pass of the loop body and the test of the loop condition.
PushStep ==
    /\ call.pc = "loop"
    /\ drv' = iteration(drv, pushMode(call.mode),
                        IF call.fault.at = call.n THEN call.fault ELSE NoFault)
    /\ call' = [call EXCEPT !.pc = passed(drv'), !.n = @ + 1]
    /\ UNCHANGED <<allIn, modes, twin, userOpts, callerOpts, out>>

\* The code after the loop, up to the return.
PushEnd ==
    /\ call.pc = "after"
    /\ drv' = afterLoop(drv, pushMode(call.mode), call.fault)
    /\ call' = [call EXCEPT !.pc = "idle"]
    /\ UNCHANGED <<allIn, modes, twin, userOpts, callerOpts, out>>

NextLoop ==
    \/ \E data \in Datas, mode \in PushModes, fault \in Faults :
           PushBegin(data, mode, fault)
    \/ PushStep
    \/ PushEnd

\* What PushStep and PushEnd do to call.  PushStep is enabled wherever
\* call.pc is "loop" and PushEnd wherever it is "after", and no other
\* action moves call.pc from there: a push that goes on is one that takes
\* these steps.
Passing ==
    /\ call.pc = "loop"
    /\ call' \in {[call EXCEPT !.pc = p, !.n = @ + 1] : p \in {"idle", "loop", "after"}}

Returning ==
    /\ call.pc = "after"
    /\ call' = [call EXCEPT !.pc = "idle"]

SpecLoop ==
    InitLoop /\ [][NextLoop]_vars /\ WF_call(Passing) /\ WF_call(Returning)

(***************************************************************************)
(* The constructor and the one-shot functions, called by a caller that     *)
(* keeps its options object from one call to the next.                     *)
(***************************************************************************)
InitOneShot ==
    /\ callerOpts \in CallerOptions
    /\ out = NoOutcome
    /\ userOpts = NoOptions
    /\ drv = World(newInstance(Defaults))
    /\ twin = World(newInstance(Defaults))
    /\ call = NoCall
    /\ allIn = <<>>
    /\ modes = <<>>

StreamUnchanged == UNCHANGED <<drv, call, allIn, modes, twin, userOpts>>

\* The outcome of a call of fn, given the answer of the function.
Outcome(fn, a) ==
    [fn |-> fn, kind |-> a.kind, value |-> a.value, error |-> a.error,
     options |-> a.options, constructed |-> a.constructed, calls |-> a.calls,
     pushes |-> a.pushes, log |-> a.log, ret |-> a.ret, deflator |-> a.deflator,
     given |-> callerOpts]

\* The outcome of new Deflate(options).
Constructed(c) ==
    [fn |-> "Deflate", kind |-> IF c.threw THEN "throw" ELSE "return",
     value |-> Undefined, error |-> c.error, options |-> callerOpts,
     constructed |-> ~c.threw, calls |-> c.calls, pushes |-> <<>>,
     log |-> <<>>, ret |-> FALSE, deflator |-> c.self, given |-> callerOpts]

\* The statuses and the fault of the engine calls a call makes: there is none
\* to choose for an engine call that is not made.
Reached(input, initStatus, dictStatus, fault) ==
    /\ initStatus # Z_OK => dictStatus = Z_OK
    /\ dictStatus # Z_OK => "dictionary" \in callerOpts.has
    /\ initStatus # Z_OK \/ dictStatus # Z_OK =>
           fault = NoFault /\ input = U8(<<>>)

\* new Deflate(callerOpts)
New(initStatus, dictStatus) ==
    /\ Reached(U8(<<>>), initStatus, dictStatus, NoFault)
    /\ out' = Constructed(Deflate(callerOpts, initStatus, dictStatus))
    /\ UNCHANGED callerOpts
    /\ StreamUnchanged

\* deflate(input, callerOpts)
CallDeflate(input, initStatus, dictStatus, fault) ==
    /\ Reached(input, initStatus, dictStatus, fault)
    /\ out' = Outcome("deflate", deflate(input, callerOpts, initStatus, dictStatus, fault))
    /\ UNCHANGED callerOpts
    /\ StreamUnchanged

\* deflateRaw(input, callerOpts): the caller's object, if there is one, is
\* the object the function writes the flag to.
CallDeflateRaw(input, initStatus, dictStatus, fault) ==
    /\ Reached(input, initStatus, dictStatus, fault)
    /\ out' = Outcome("deflateRaw",
                      deflateRaw(input, callerOpts, initStatus, dictStatus, fault))
    /\ callerOpts' = IF callerOpts.defined THEN forceRaw(callerOpts) ELSE callerOpts
    /\ StreamUnchanged

\* gzip(input, callerOpts)
CallGzip(input, initStatus, dictStatus, fault) ==
    /\ Reached(input, initStatus, dictStatus, fault)
    /\ out' = Outcome("gzip", gzip(input, callerOpts, initStatus, dictStatus, fault))
    /\ callerOpts' = IF callerOpts.defined THEN forceGzip(callerOpts) ELSE callerOpts
    /\ StreamUnchanged

NextOneShot ==
    \/ \E initStatus \in InitStatuses, dictStatus \in InitStatuses :
          New(initStatus, dictStatus)
    \/ \E input \in OneShotInputs, initStatus \in InitStatuses,
          dictStatus \in InitStatuses, fault \in OneShotFaults :
          \/ CallDeflate(input, initStatus, dictStatus, fault)
          \/ CallDeflateRaw(input, initStatus, dictStatus, fault)
          \/ CallGzip(input, initStatus, dictStatus, fault)

SpecOneShot == InitOneShot /\ [][NextOneShot]_vars

(***************************************************************************)
(* Properties of push.  The log of the last push is read through Events:   *)
(* the positions of the calls of one kind.                                 *)
(***************************************************************************)
Events(ev) == {i \in 1..Len(drv.log) : drv.log[i].ev = ev}

\* The statuses an engine step reports without error.
Successes == {Z_OK, Z_STREAM_END}

NoStepError == \A i \in Events("deflate") : drv.log[i].status \in Successes

StepError == \E i \in Events("deflate") : drv.log[i].status \notin Successes

FinishingCall == call.live /\ call.mode \in {Num(Z_FINISH), Bool(TRUE)}

SyncCall == call.live /\ call.mode = Num(Z_SYNC_FLUSH)

\* C1: once the driver is terminated, every push, with any data and any
\* mode, returns false, calls neither the engine nor a hook, and leaves the
\* instance (err, msg, result, chunks and the stream state with its bound
\* input and cursors) as it was.
C1_PushAfterEndIsInert ==
    [][drv.self.ended =>
          /\ drv'.ret = FALSE
          /\ drv'.log = <<>>
          /\ drv'.self = drv.self
          /\ drv'.emitted = drv.emitted
          /\ drv'.produced = drv.produced]_vars

\* A push has been made on a driver that a finishing push terminated, with a
\* result, after a push that did not terminate it.
C1_Witness ==
    /\ call = NoCall
    /\ drv.self.ended
    /\ Len(modes) >= 2
    /\ drv.self.err = 0
    /\ drv.self.result.t # "undefined"
    /\ drv.ret = FALSE

\* C2: a finishing push (mode 4 or true) on a live driver whose engine steps
\* report no error runs at least one engine step, calls onEnd exactly once,
\* after every onData of the push and after deflateEnd, and leaves the
\* driver terminated.
C2_FinishingPush ==
    FinishingCall /\ NoStepError =>
        /\ Events("deflate") # {}
        /\ Cardinality(Events("onEnd")) = 1
        /\ Cardinality(Events("deflateEnd")) = 1
        /\ \A j \in Events("onEnd") :
               \A i \in Events("onData") \cup Events("deflateEnd") \cup Events("deflate") :
                   i < j
        /\ drv.self.ended

\* A finishing push of zero-length data, given as the boolean true, that took
\* several emissions.
C2_Witness ==
    /\ FinishingCall /\ NoStepError
    /\ call.mode = Bool(TRUE)
    /\ drv.self.strm.input.v = <<>>
    /\ Cardinality(Events("onData")) >= 2
    /\ Cardinality(Events("onEnd")) = 1

\* C3: a sync-flush push (mode 2) on a live driver whose engine steps report
\* no error hands everything the engine wrote to onData, calls onEnd exactly
\* once, with status 0 and without deflateEnd, leaves avail_out at 0, returns
\* true and leaves the driver live, however many sync-flush and no-flush
\* pushes came before; and the push that follows reaches the engine.
C3_SyncFlushPush ==
    /\ [](SyncCall /\ NoStepError =>
             /\ Events("onData") # {}
             /\ drv.emitted = drv.produced
             /\ Cardinality(Events("onEnd")) = 1
             /\ \A j \in Events("onEnd") :
                    /\ drv.log[j].status = Z_OK
                    /\ \A i \in Events("onData") : i < j
             /\ Events("deflateEnd") = {}
             /\ drv.self.strm.avail_out = 0
             /\ drv.ret = TRUE
             /\ ~drv.self.ended)
    /\ [][SyncCall /\ NoStepError =>
             \E i \in 1..Len(drv'.log) : drv'.log[i].ev = "deflate"]_vars

\* A sync flush after a sync flush and a no-flush push, with output emitted.
C3_Witness ==
    /\ SyncCall /\ NoStepError
    /\ modes = <<Z_SYNC_FLUSH, Z_NO_FLUSH, Z_SYNC_FLUSH>>
    /\ Cardinality(Events("onData")) >= 2
    /\ drv.ret = TRUE

\* C4: when an engine step of a push reports a status other than 0 and 1,
\* the push returns false, onEnd is called exactly once, with that status,
\* err is that status and msg the message of the engine, the driver is
\* terminated, and the failing step is the last call of the push but onEnd:
\* no further step, no onData, no deflateEnd.
C4_StepErrorEndsPush ==
    call.live /\ StepError =>
        /\ Len(drv.log) >= 2
        /\ drv.log[Len(drv.log) - 1].ev = "deflate"
        /\ drv.log[Len(drv.log) - 1].status \notin Successes
        /\ drv.log[Len(drv.log)].ev = "onEnd"
        /\ drv.log[Len(drv.log)].status = drv.log[Len(drv.log) - 1].status
        /\ Cardinality(Events("onEnd")) = 1
        /\ \A i \in Events("deflate") \ {Len(drv.log) - 1} :
               drv.log[i].status \in Successes
        /\ Events("deflateEnd") = {}
        /\ drv.ret = FALSE
        /\ drv.self.err = drv.log[Len(drv.log) - 1].status
        /\ drv.self.msg = drv.self.strm.msg
        /\ drv.self.ended

\* A finishing push whose second step failed, after the first filled a
\* buffer that was emitted; the engine left a message.
C4_Witness ==
    /\ FinishingCall /\ StepError
    /\ Events("onData") # {}
    /\ drv.self.msg = "stream error"
    /\ drv.self.err = Z_STREAM_ERROR

\* The options of the driver under test, without its chunkSize.
DefaultCapacity == [userOpts EXCEPT !.has = @ \ {"chunkSize"}]

\* C5: the bytes handed to onData up to the end of a finishing push whose
\* engine steps report no error are the same whatever the chunkSize, after
\* any pushes before it; when the finishing push is the only push they are
\* the bytes of the one-shot result.
C5_ChunkingTransparency ==
    FinishingCall /\ NoStepError =>
        /\ drv.emitted = twin.emitted
        /\ Len(modes) = 1 =>
               drv.emitted =
                   deflate(U8(allIn), DefaultCapacity, Z_OK, Z_OK, NoFault).value.v

\* A single finishing push of two bytes with chunkSize 1, which took more
\* chunks than its twin of larger capacity.
C5_Witness ==
    /\ FinishingCall /\ NoStepError
    /\ Len(modes) = 1
    /\ Len(allIn) = 2
    /\ drv.self.options.chunkSize = 1
    /\ Cardinality(Events("onData")) > Cardinality({i \in 1..Len(twin.log) :
                                                      twin.log[i].ev = "onData"})
    /\ Len(drv.emitted) >= 4

\* The pushes so far are no-flush pushes followed by one finishing push.
SplitRun ==
    /\ modes # <<>>
    /\ modes[Len(modes)] = Z_FINISH
    /\ \A i \in 1..(Len(modes) - 1) : modes[i] = Z_NO_FLUSH

\* C6: after no-flush pushes of the pieces of an input and a finishing push
\* of the last piece, none of which met an engine error, result is what the
\* one-shot deflate returns for the whole input under the same options.
C6_SplitInput ==
    FinishingCall /\ SplitRun /\ drv.self.err = 0 =>
        drv.self.result = deflate(U8(allIn), userOpts, Z_OK, Z_OK, NoFault).value

\* push(empty, no-flush), then push(x, finish).
C6_Witness ==
    /\ FinishingCall /\ drv.self.err = 0
    /\ modes = <<Z_NO_FLUSH, Z_FINISH>>
    /\ Len(allIn) = 2
    /\ drv.self.strm.input.v = allIn
    /\ drv.self.result.t = "Uint8Array"

\* The chunks one after the other.
RECURSIVE Concat(_)
Concat(chunks) == IF chunks = <<>> THEN <<>> ELSE Head(chunks).v \o Concat(Tail(chunks))

\* The chunks the onData calls of a log were given, in order.
RECURSIVE Handed(_)
Handed(log) ==
    IF log = <<>> THEN <<>>
    ELSE IF Head(log).ev = "onData" THEN Head(log).chunks \o Handed(Tail(log))
    ELSE Handed(Tail(log))

\* The pending chunks of w when onEnd was called in its last push, or at
\* the end of that push if onEnd was not called.
Pending(w) ==
    IF \E i \in 1..Len(w.log) : w.log[i].ev = "onEnd"
    THEN w.log[Len(w.log)].chunks
    ELSE w.self.chunks

\* C7: onData appends its chunk to chunks; onEnd(s) leaves chunks empty,
\* err = s and msg the message of the engine, and result the concatenation
\* of the pending chunks, in order, as bytes or as a string, if s is 0 and
\* what it was if s is not 0.
C7_DefaultHooks ==
    /\ [](call.live =>
             \A j \in Events("onEnd") :
                 /\ j = Len(drv.log)
                 /\ drv.self.chunks = <<>>
                 /\ drv.self.err = drv.log[j].status
                 /\ drv.self.msg = drv.self.strm.msg
                 /\ drv.self.result =
                        IF drv.log[j].status # 0 THEN drv.log[j].result
                        ELSE IF drv.self.options.to = "string"
                        THEN Str(Concat(drv.log[j].chunks))
                        ELSE U8(Concat(drv.log[j].chunks)))
    /\ [][~drv.self.ended => Pending(drv') = drv.self.chunks \o Handed(drv'.log)]_vars

\* onEnd(0) joined two or more chunks to a string, some of them pending
\* since an earlier push.
C7_Witness ==
    /\ call.live
    /\ Events("onEnd") # {}
    /\ drv.log[Len(drv.log)].status = 0
    /\ Len(drv.log[Len(drv.log)].chunks) > Cardinality(Events("onData"))
    /\ Cardinality(Events("onData")) >= 1
    /\ drv.self.options.to = "string"
    /\ Len(drv.self.result.v) >= 3

(***************************************************************************)
(* Properties of the constructor and of the one-shot functions, read from  *)
(* the outcome of the last call and the options object the caller gave.    *)
(***************************************************************************)
\* What the given options say, a key that is absent left to its default.
GivenWindowBits ==
    IF "windowBits" \in out.given.has THEN out.given.windowBits ELSE DefaultWindowBits

GivenRaw == "raw" \in out.given.has /\ out.given.raw

GivenGzip == "gzip" \in out.given.has /\ out.given.gzip

\* The window bits the engine is initialised with.
InitWindowBits == out.calls[1].status

OtherFields ==
    {"level", "method", "chunkSize", "memLevel", "strategy", "to", "raw", "gzip",
     "header", "dictionary"}

\* C8: the window bits given to deflateInit2 are -windowBits if raw is set
\* and windowBits > 0, else windowBits + 16 if gzip is set and
\* 0 < windowBits < 16, else windowBits; every other option is what the
\* caller gave or, absent that, its default.
C8_WindowBitsPolarity ==
    out.fn = "Deflate" =>
        /\ out.calls # <<>>
        /\ out.calls[1].ev = "deflateInit2"
        /\ InitWindowBits =
               IF GivenRaw /\ GivenWindowBits > 0 THEN -GivenWindowBits
               ELSE IF GivenGzip /\ GivenWindowBits > 0 /\ GivenWindowBits < 16
               THEN GivenWindowBits + 16
               ELSE GivenWindowBits
        /\ out.constructed => out.deflator.strm.state.windowBits = InitWindowBits
        /\ \A k \in OtherFields :
               out.deflator.options[k] =
                   IF k \in out.given.has THEN out.given[k] ELSE Defaults[k]

\* new Deflate({ raw: true, gzip: true, windowBits: 9 }) initialised the
\* engine with -9.
C8_Witness ==
    /\ out.fn = "Deflate"
    /\ out.constructed
    /\ GivenRaw /\ GivenGzip
    /\ GivenWindowBits = 9
    /\ InitWindowBits = -9

OneShotCall == out.fn \in {"deflate", "deflateRaw", "gzip"} /\ out.constructed

\* C9: a one-shot call that constructed its driver constructs no other,
\* makes one push, of the input with mode true, and throws if and only if
\* err is not 0 after it: msg or, msg being empty, the message the table
\* has for err; otherwise it returns result.  It returns nothing when the
\* push returned false.
C9_OneShotEscalates ==
    OneShotCall =>
        /\ Cardinality({i \in 1..Len(out.calls) : out.calls[i].ev = "deflateInit2"}) = 1
        /\ Len(out.pushes) = 1
        /\ out.pushes[1].mode = Bool(TRUE)
        /\ out.deflator.strm.input = out.pushes[1].data
        /\ out.deflator.ended
        /\ out.kind = "throw" <=> out.deflator.err # 0
        /\ out.kind = "throw" =>
               out.error = IF out.deflator.msg # "" THEN out.deflator.msg
                           ELSE MsgTable(out.deflator.err)
        /\ out.kind # "throw" =>
               /\ out.kind = "return"
               /\ out.value = out.deflator.result
               /\ out.ret = TRUE
        /\ out.ret = FALSE => out.kind = "throw" /\ out.value = Undefined

\* deflate threw the table message of a buffer error the engine reported
\* without a message.
C9_Witness ==
    /\ OneShotCall
    /\ out.fn = "deflate"
    /\ out.kind = "throw"
    /\ out.deflator.msg = ""
    /\ out.deflator.err = Z_BUF_ERROR
    /\ out.error = "buffer error"

\* C10: for options with 0 < windowBits < 16, or without windowBits,
\* deflateRaw initialises the engine with -windowBits and gzip with
\* windowBits + 16, whatever flags the options object carried when the
\* function was given it.
C10_VariantsSelectFraming ==
    out.fn \in {"deflateRaw", "gzip"} /\ out.calls # <<>>
        /\ GivenWindowBits > 0 /\ GivenWindowBits < 16 =>
        InitWindowBits = IF out.fn = "deflateRaw" THEN -GivenWindowBits
                         ELSE GivenWindowBits + 16

\* The names of the engine calls of the last constructor, in order.
CallNames(o) == [i \in 1..Len(o.calls) |-> o.calls[i].ev]

HasHeader == "header" \in callerOpts.has /\ callerOpts.header

HasDictionary == "dictionary" \in callerOpts.has /\ callerOpts.dictionary

\* C11: when init answers a status other than Z_OK the constructor throws
\* the message of that status, having called neither setHeader nor
\* setDictionary; when init succeeds and setDictionary answers a status
\* other than Z_OK, it throws; a constructor that threw returned no
\* instance and no push was made.  Otherwise the engine calls are init,
\* setHeader if a header is given and setDictionary if a dictionary is
\* given, in this order, and the instance has err = 0, ended unset, no
\* chunks and avail_out = 0.
C11_ConstructionFailures ==
    /\ [](out.fn # "none" /\ ~out.constructed =>
             out.kind = "throw" /\ out.pushes = <<>> /\ out.log = <<>>)
    /\ [][\A initStatus \in InitStatuses, dictStatus \in InitStatuses :
             New(initStatus, dictStatus) =>
                 /\ initStatus # Z_OK =>
                        /\ out'.kind = "throw"
                        /\ ~out'.constructed
                        /\ out'.error = MsgTable(initStatus)
                        /\ CallNames(out') = <<"deflateInit2">>
                 /\ initStatus = Z_OK /\ HasDictionary /\ dictStatus # Z_OK =>
                        /\ out'.kind = "throw"
                        /\ ~out'.constructed
                        /\ out'.error = MsgTable(dictStatus)
                 /\ initStatus = Z_OK /\ (HasDictionary => dictStatus = Z_OK) =>
                        /\ out'.kind = "return"
                        /\ out'.constructed
                        /\ CallNames(out') =
                               <<"deflateInit2">>
                                   \o (IF HasHeader THEN <<"deflateSetHeader">> ELSE <<>>)
                                   \o (IF HasDictionary THEN <<"deflateSetDictionary">>
                                       ELSE <<>>)
                        /\ out'.deflator.err = 0
                        /\ ~out'.deflator.ended
                        /\ out'.deflator.chunks = <<>>
                        /\ out'.deflator.strm.avail_out = 0]_vars

\* The constructor threw because setDictionary refused the dictionary,
\* after init and setHeader.
C11_Witness ==
    /\ out.fn = "Deflate"
    /\ out.kind = "throw"
    /\ ~out.constructed
    /\ CallNames(out) = <<"deflateInit2", "deflateSetHeader", "deflateSetDictionary">>
    /\ out.error = "stream error"

\* C12: a sync-flush push of zero-length data on a live driver returns
\* true, leaves err at 0 and leaves the driver live, in whatever state the
\* driver was, and hands to onData what the engine wrote, nothing else.
C12_EmptySyncFlush ==
    SyncCall /\ drv.self.strm.input.v = <<>> =>
        /\ drv.ret = TRUE
        /\ drv.self.err = 0
        /\ ~drv.self.ended
        /\ drv.emitted = drv.produced

(***************************************************************************)
(* lib/zlib/constants.js: the constants the module exports at run time,    *)
(* and constants.d.ts: the values declared for them.                       *)
(***************************************************************************)
constants ==
    [Z_NO_FLUSH |-> 0, Z_PARTIAL_FLUSH |-> 1, Z_SYNC_FLUSH |-> 2,
     Z_FULL_FLUSH |-> 3, Z_FINISH |-> 4, Z_BLOCK |-> 5, Z_TREES |-> 6,
     Z_OK |-> 0, Z_STREAM_END |-> 1, Z_NEED_DICT |-> 2, Z_ERRNO |-> 1,
     Z_STREAM_ERROR |-> 2, Z_DATA_ERROR |-> 3, Z_MEM_ERROR |-> 4,
     Z_BUF_ERROR |-> 5, Z_VERSION_ERROR |-> -6, Z_NO_COMPRESSION |-> 0,
     Z_BEST_SPEED |-> 1, Z_BEST_COMPRESSION |-> 9,
     Z_DEFAULT_COMPRESSION |-> 1, Z_FILTERED |-> 1, Z_HUFFMAN_ONLY |-> 2,
     Z_RLE |-> 3, Z_FIXED |-> 4, Z_DEFAULT_STRATEGY |-> 0, Z_BINARY |-> 0,
     Z_TEXT |-> 1, Z_UNKNOWN |-> 2, Z_DEFLATED |-> 8]

Declared ==
    [Z_DEFLATED |-> 8, Z_NO_FLUSH |-> 0, Z_PARTIAL_FLUSH |-> 1,
     Z_SYNC_FLUSH |-> 2, Z_FULL_FLUSH |-> 3, Z_FINISH |-> 4, Z_BLOCK |-> 5,
     Z_TREES |-> 6, Z_FILTERED |-> 1, Z_HUFFMAN_ONLY |-> 2, Z_RLE |-> 3,
     Z_FIXED |-> 4, Z_DEFAULT_STRATEGY |-> 0, Z_NO_COMPRESSION |-> 0,
     Z_BEST_SPEED |-> 1, Z_BEST_COMPRESSION |-> 9,
     Z_DEFAULT_COMPRESSION |-> -1, Z_BINARY |-> 0, Z_TEXT |-> 1,
     Z_UNKNOWN |-> 2, Z_OK |-> 0, Z_STREAM_END |-> 1, Z_NEED_DICT |-> 2,
     Z_ERRNO |-> -1, Z_STREAM_ERROR |-> -2, Z_DATA_ERROR |-> -3,
     Z_BUF_ERROR |-> -5]

ErrorNames == {"Z_ERRNO", "Z_STREAM_ERROR", "Z_DATA_ERROR", "Z_BUF_ERROR"}

\* C13: every constant exported by constants.js has the value constants.d.ts
\* declares for it; the error codes are negative and none is Z_OK or
\* Z_STREAM_END; the flush modes are 0, 2 and 4; and Z_DEFAULT_COMPRESSION is
\* the default level of the driver, -1.
C13_ConstantsAsDeclared ==
    /\ \A n \in DOMAIN constants \cap DOMAIN Declared : constants[n] = Declared[n]
    /\ constants.Z_OK = Z_OK /\ constants.Z_STREAM_END = Z_STREAM_END
    /\ \A n \in ErrorNames :
           constants[n] < 0 /\ constants[n] \notin {constants.Z_OK, constants.Z_STREAM_END}
    /\ constants.Z_NO_FLUSH = Z_NO_FLUSH
    /\ constants.Z_SYNC_FLUSH = Z_SYNC_FLUSH
    /\ constants.Z_FINISH = Z_FINISH
    /\ constants.Z_DEFAULT_COMPRESSION = drv.self.options.level

(***************************************************************************)
(* Properties of the chunk loop, read from the engine steps of the log.    *)
(***************************************************************************)
\* The _mode of the last push on the live driver.
LastMode == modes[Len(modes)]

\* After the step at position i of the log the loop is to emit.
EmissionDue(i) ==
    \/ drv.log[i].after.avail_out = 0
    \/ /\ drv.log[i].after.avail_in = 0
       /\ LastMode \in {Z_FINISH, Z_SYNC_FLUSH}

\* The bytes [0, next_out) of the output buffer after the step at i.
FilledPart(i) ==
    [k \in 1..drv.log[i].after.next_out |-> drv.log[i].after.output.v[k]]

\* C14: in a push on a live driver, a step that answers Z_OK or
\* Z_STREAM_END is followed by one onData call if the output buffer is full
\* or if the input is consumed and the mode is finish or sync flush, and by
\* none otherwise; the chunk is the bytes [0, next_out) of the output
\* buffer, at most chunkSize of them.  A no-flush push hands over full
\* chunks only, and a buffer it leaves partly filled is the buffer of the
\* first step of the next push.
C14_EmissionRule ==
    /\ [](call.live =>
             /\ \A i \in Events("deflate") :
                    drv.log[i].status \in Successes =>
                        /\ EmissionDue(i) <=>
                               i < Len(drv.log) /\ drv.log[i + 1].ev = "onData"
                        /\ EmissionDue(i) =>
                               /\ drv.log[i + 1].chunks =
                                      <<IF drv.self.options.to = "string"
                                        THEN Str(FilledPart(i)) ELSE U8(FilledPart(i))>>
                               /\ drv.log[i].after.next_out <= drv.self.options.chunkSize
             /\ \A j \in Events("onData") :
                    /\ j > 1 /\ drv.log[j - 1].ev = "deflate"
                    /\ LastMode = Z_NO_FLUSH =>
                           Len(drv.log[j].chunks[1].v) = drv.self.options.chunkSize)
    /\ [][~drv.self.ended /\ drv.self.strm.avail_out > 0 =>
             /\ drv'.log[1].ev = "deflate"
             /\ drv'.log[1].before.output = drv.self.strm.output
             /\ drv'.log[1].before.next_out = drv.self.strm.next_out]_vars

\* A no-flush push handed over a full chunk and left a partly filled buffer.
C14_Witness ==
    /\ call.live
    /\ LastMode = Z_NO_FLUSH
    /\ Events("onData") # {}
    /\ Cardinality(Events("deflate")) >= 2
    /\ drv.self.strm.avail_out > 0
    /\ drv.self.strm.next_out > 0
    /\ ~drv.self.ended

\* C15: at every moment the bytes handed to onData since construction, in
\* the order of the calls, are the first bytes the engine wrote: none twice,
\* none left out, none out of order; after a finishing push without error
\* in which the engine consumed the input they are all the bytes the engine
\* wrote.
C15_OutputOrder ==
    /\ Len(drv.emitted) <= Len(drv.produced)
    /\ drv.emitted = SubSeq(drv.produced, 1, Len(drv.emitted))
    /\ FinishingCall /\ drv.self.err = 0 /\ drv.self.strm.avail_in = 0 =>
           drv.emitted = drv.produced

\* After three pushes on a live driver some bytes have been handed to
\* onData, in two chunks or more, and the engine has written one more.
C15_Witness ==
    /\ call.live
    /\ Len(modes) = 3
    /\ ~drv.self.ended
    /\ Len(drv.emitted) >= 3
    /\ Len(drv.produced) > Len(drv.emitted)

\* C16: before every engine step of a push, avail_in is the length of the
\* input buffer less next_in, avail_out is the length of the output buffer
\* less next_out, and avail_out > 0 with an output buffer allocated.
C16_CursorInvariant ==
    call.live =>
        \A i \in Events("deflate") :
            /\ drv.log[i].before.input.t = "Uint8Array"
            /\ drv.log[i].before.avail_in =
                   Len(drv.log[i].before.input.v) - drv.log[i].before.next_in
            /\ drv.log[i].before.next_in >= 0
            /\ drv.log[i].before.avail_in >= 0
            /\ drv.log[i].before.output.t = "Uint8Array"
            /\ drv.log[i].before.avail_out =
                   drv.log[i].before.output.length - drv.log[i].before.next_out
            /\ drv.log[i].before.next_out >= 0
            /\ drv.log[i].before.avail_out > 0

\* A later push whose second step started in the middle of the input, and
\* one of whose steps started in the middle of an output buffer.
C16_Witness ==
    /\ call.live
    /\ Len(modes) >= 2
    /\ \E i \in Events("deflate") : i > 1 /\ drv.log[i].before.next_in > 0
    /\ \E i \in Events("deflate") :
           drv.log[i].before.next_out > 0 /\ drv.log[i].before.avail_out > 0

\* The engine step before the step at position i of the log.
PrevStep(i) ==
    CHOOSE j \in Events("deflate") :
        j < i /\ \A k \in Events("deflate") : k < i => k <= j

\* C17: a buffer of chunkSize bytes is allocated before an engine step
\* exactly when avail_out is 0 at the top of the loop, which it is before
\* the first step after construction; and no engine step is given an
\* output buffer that has been handed to onData.
C17_BufferOwnership ==
    /\ [](call.live =>
             /\ \A i \in Events("deflate") :
                    /\ ~drv.log[i].handed
                    /\ (\E j \in Events("deflate") : j < i) =>
                           (drv.log[i - 1].ev = "Buf8"
                               <=> drv.log[PrevStep(i)].after.avail_out = 0)
                    /\ i > 1 /\ drv.log[i - 1].ev = "Buf8" =>
                           /\ drv.log[i].before.output.length = drv.self.options.chunkSize
                           /\ drv.log[i].before.output.v = <<>>
                           /\ drv.log[i].before.next_out = 0
                           /\ drv.log[i].before.avail_out = drv.self.options.chunkSize
             /\ \A j \in Events("Buf8") :
                    j < Len(drv.log) /\ drv.log[j + 1].ev = "deflate"
             /\ Len(modes) = 1 => drv.log[1].ev = "Buf8")
    /\ [][~drv.self.ended =>
             (drv'.log[1].ev = "Buf8" <=> drv.self.strm.avail_out = 0)]_vars

\* The push after a sync flush allocated a buffer, filled it, handed it to
\* onData and allocated another.
C17_Witness ==
    /\ call.live
    /\ Len(modes) >= 2
    /\ modes[Len(modes) - 1] = Z_SYNC_FLUSH
    /\ Cardinality(Events("Buf8")) >= 2
    /\ Events("onData") # {}
    /\ drv.log[1].ev = "Buf8"

\* The bytes handed to onData since onEnd was last called, or since
\* construction.
SinceMark(w, from) == SubSeq(w.emitted, from + 1, Len(w.emitted))

\* C18: when a push has called onEnd with status 0, chunks is empty and
\* result is the concatenation of the chunks handed to onData since the
\* onEnd call before it, or since construction: the result of a finishing
\* push after a sync flush holds none of the bytes of the result of the
\* flush.  In between, chunks holds the chunks handed over since.
C18_ScopeOfResult ==
    /\ [](Concat(drv.self.chunks) = SinceMark(drv, drv.mark))
    /\ [][\A j \in 1..Len(drv'.log) :
             drv'.log[j].ev = "onEnd" /\ drv'.log[j].status = 0 =>
                 /\ drv'.self.chunks = <<>>
                 /\ drv'.self.result =
                        IF drv.self.options.to = "string"
                        THEN Str(SinceMark(drv', drv.mark))
                        ELSE U8(SinceMark(drv', drv.mark))]_vars

\* A finishing push after a sync flush: its result is the last bytes handed
\* to onData, not all of them.
C18_Witness ==
    /\ FinishingCall
    /\ drv.self.err = 0
    /\ \E i \in 1..(Len(modes) - 1) : modes[i] = Z_SYNC_FLUSH
    /\ drv.self.result.v # <<>>
    /\ Len(drv.self.result.v) < Len(drv.emitted)
    /\ drv.self.chunks = <<>>

\* C19: a driver whose err is not 0 is terminated; ended, once set, stays
\* set; a push on a live driver returns true exactly when err is 0 after
\* it, which for a finishing push whose steps report no error is exactly
\* when deflateEnd answered Z_OK.
C19_ErrAndLifecycle ==
    /\ [](drv.self.err # 0 => drv.self.ended)
    /\ [](call.live => (drv.ret = TRUE <=> drv.self.err = 0))
    /\ [](FinishingCall /\ NoStepError =>
             \A i \in Events("deflateEnd") :
                 drv.ret = TRUE <=> drv.log[i].status = Z_OK)
    /\ [][drv.self.ended => drv'.self.ended]_vars

\* A finishing push whose steps went through and whose deflateEnd answered
\* an error: push returned false, err is set, the driver is terminated.
C19_Witness ==
    /\ FinishingCall /\ NoStepError
    /\ Events("deflateEnd") # {}
    /\ drv.self.err = Z_DATA_ERROR
    /\ drv.ret = FALSE
    /\ drv.self.ended
    /\ drv.emitted # <<>>

\* The number of engine steps the running push has taken.
Steps == Cardinality(Events("deflate"))

\* A push taken pass by pass leaves the driver as the push taken at once.
LoopIsPush ==
    call.pc = "idle" /\ call.live =>
        drv = push(call.start, call.data, call.mode, call.fault)

\* The steps the fairness of SpecLoop is about are those of the loop and of
\* the return.
FairSteps ==
    [][/\ call.pc = "loop" => Passing
       /\ call.pc = "after" => Returning
       /\ call.pc = "idle" => ~Passing /\ ~Returning]_vars

\* C20: every push that has begun returns; the loop takes another pass only
\* while input remains or the output buffer is full, and the last step did
\* not report the end of the stream; a pass after which neither holds, or
\* the end of the stream was reported, is the last one.
C20_PushTerminates ==
    /\ (call.pc = "loop") ~> (call.pc = "idle")
    /\ [][call.pc = "loop" =>
             /\ call'.pc = "loop" =>
                    /\ drv'.self.strm.avail_in > 0 \/ drv'.self.strm.avail_out = 0
                    /\ drv'.status # Z_STREAM_END
                    /\ drv'.status = Z_OK
             /\ call'.pc = "after" =>
                    \/ drv'.self.strm.avail_in = 0 /\ drv'.self.strm.avail_out > 0
                    \/ drv'.status = Z_STREAM_END
             /\ call'.pc = "idle" => drv'.status \notin Successes]_vars

\* A push that took three engine steps, with no error, and has returned.
C20_Witness ==
    /\ call.pc = "idle" /\ call.live
    /\ Steps >= 3
    /\ NoStepError
    /\ drv.ret = TRUE

\* A push on a live driver has returned.
Returned == call.pc = "idle" /\ call.live

\* What the stream state holds as its input once a push has returned: the
\* data of that push, in every mode, after success and after failure.
InputKept == Returned => drv.self.strm.input = call.data

\* C21: after a push on a live driver has returned, in any mode and with
\* success or failure, the stream state does not hold the input buffer
\* that was bound during that call.
C21_InputBorrowed ==
    Returned /\ call.data.v # <<>> => drv.self.strm.input # call.data

====
